---------------------------- MODULE Spec2Model ----------------------------
(***************************************************************************)
(* State-machine model of the cinematic browser game: the enemy behaviour  *)
(* state machine (EnemyAI), the smoothed follow camera with its shake      *)
(* timers (CinematicCamera), the player (Player) and the frame loop        *)
(* (Game.animate).                                                         *)
(*                                                                         *)
(* Numbers.  The program computes in IEEE doubles; the model computes in   *)
(* fixed point.  Lengths and coordinates are in hundredths of a world      *)
(* unit, times are in milliseconds, velocities are in hundredths of a unit *)
(* per second, fractions (smoothFactor, Math.random()) are in hundredths.  *)
(* Every product followed by a division is rounded to the nearest integer. *)
(* Distance comparisons (d < r) are made on squares (d*d < r*r), which is  *)
(* exact on the grid.                                                      *)
(*                                                                         *)
(* Scheduling.  JavaScript runs one callback at a time, so every handler   *)
(* (a frame, an interval callback, a key event, a method call) is one      *)
(* atomic action.                                                          *)
(***************************************************************************)
EXTENDS Integers, Sequences, FiniteSets, TLC

VARIABLES
    enemies,    \* Game.enemies: sequence of EnemyAI objects (records)
    player,     \* Game.player: the Player object
    cam,        \* Game.camera: the CinematicCamera object
    flashes,    \* the pending timers of Player.takeDamage's flash, oldest first
    shakes,     \* the setInterval timers created by CinematicCamera.shake
    now,        \* wall clock (Date.now / performance.now), ms
    lastTime,   \* TimeManager.lastTime, ms
    keys,       \* InputManager.keys: the set of key codes currently held
    isRunning,  \* Game.isRunning
    frame,      \* whether a call of Game.animate is due (requestAnimationFrame)
    ticks,      \* number of operations performed so far (bounds the runs)
    hist        \* history variable: the last operation and what it observed

vars == <<enemies, player, cam, shakes, flashes, now, lastTime, keys, isRunning,
          frame, ticks, hist>>

-----------------------------------------------------------------------------
(* Fixed-point arithmetic and THREE.Vector3                                *)

\* a / b rounded to the nearest integer (halves away from zero), b > 0
RDiv(a, b) ==
    IF a >= 0 THEN (2 * a + b) \div (2 * b)
              ELSE -((2 * (-a) + b) \div (2 * b))

Sq(a) == a * a

Max(a, b) == IF a >= b THEN a ELSE b

Min(a, b) == IF a <= b THEN a ELSE b

RECURSIVE SqrtSearch(_, _, _)
\* the largest r in lo..hi with r*r <= n (lo*lo <= n is assumed)
SqrtSearch(n, lo, hi) ==
    IF lo >= hi THEN lo
    ELSE LET mid == (lo + hi + 1) \div 2
         IN  IF mid * mid <= n THEN SqrtSearch(n, mid, hi)
                               ELSE SqrtSearch(n, lo, mid - 1)

\* Math.sqrt, rounded to the nearest integer
ISqrt(n) ==
    LET r == SqrtSearch(n, 0, 46340)
    IN  IF n - r * r > r THEN r + 1 ELSE r

Vec(a, b, c) == [x |-> a, y |-> b, z |-> c]

VAdd(a, b) == Vec(a.x + b.x, a.y + b.y, a.z + b.z)

VSub(a, b) == Vec(a.x - b.x, a.y - b.y, a.z - b.z)

\* Vector3.lengthSq
LengthSq(v) == v.x * v.x + v.y * v.y + v.z * v.z

\* Vector3.length, in sixteenths of a hundredth.  Short vectors are measured
\* on the finer grid, so that the relative error of a length stays below
\* 1/2000 whatever its size (the products stay within 32 bits).
Length16(v) ==
    IF LengthSq(v) <= 8388607 THEN ISqrt(256 * LengthSq(v))
                              ELSE 16 * ISqrt(LengthSq(v))

\* Vector3.distanceToSquared
DistSq(a, b) == LengthSq(VSub(a, b))

\* Vector3.multiplyScalar(num / den)
VScale(v, num, den) ==
    Vec(RDiv(v.x * num, den), RDiv(v.y * num, den), RDiv(v.z * num, den))

\* Vector3.normalize() followed by multiplyScalar(len): the vector of length
\* len along v.  normalize() divides by (length() || 1), so the zero vector
\* stays zero.  A double holds a unit vector to 1 part in 10^16 and
\* normalize() returns it as it is; the grid holds it to half a hundredth per
\* coordinate, so a vector whose length is 1 to within a hundredth is a unit
\* vector of the grid and is likewise returned as it is.
Along(v, len) ==
    LET l == Length16(v)
    IN  IF l = 0 THEN v
        ELSE IF l >= 1584 /\ l <= 1616 THEN VScale(v, len, 100)
        ELSE VScale(v, 16 * len, l)

\* Vector3.lerp(b, f): a + (b - a) * f, f in hundredths
Lerp(a, b, f) == VAdd(a, VScale(VSub(b, a), f, 100))

-----------------------------------------------------------------------------
(* EnemyAI                                                                 *)

EnemySpeed == 5

EnemyHealth == 50

AttackRange == 3

DetectionRange == 30

ArrivalRadius == 2

\* EnemyAI.patrolPoints
PatrolPoints ==
    << Vec(1000, 500, 1000), Vec(-1000, 500, 1000),
       Vec(-1000, 500, -1000), Vec(1000, 500, -1000) >>

\* new EnemyAI(scene, position).  arrivals is a history field: the number of
\* patrol arrivals so far.
NewEnemy(position) ==
    [ pos      |-> position,
      target   |-> Vec(0, 0, 0),
      health   |-> EnemyHealth,
      state    |-> "patrol",
      idx      |-> 0,
      inScene  |-> TRUE,
      arrivals |-> 0 ]

\* the distance travelled in dt ms at `speed` units per second, times
\* num/den, in hundredths of a unit
StepLen(speed, dt, num, den) == RDiv(speed * dt * num, 10 * den)

NextPatrolIndexBad(i) == (i + 1) % (Len(PatrolPoints) - 1)

\* (currentPatrolIndex + 1) % patrolPoints.length
NextPatrolIndex(i) == (i + 1) % Len(PatrolPoints)

PatrolBad(en, dt) ==
    LET targetPoint == PatrolPoints[en.idx + 1]
        direction   == VSub(targetPoint, en.pos)
    IN  IF LengthSq(direction) < Sq(ArrivalRadius * 100)
        THEN [en EXCEPT !.idx = NextPatrolIndex(en.idx),
                        !.arrivals = en.arrivals + 1]
        ELSE [en EXCEPT !.pos = VAdd(en.pos,
                                Along(direction, StepLen(EnemySpeed, dt, 3, 2)))]

\* EnemyAI.patrol
Patrol(en, dt) ==
    LET targetPoint == PatrolPoints[en.idx + 1]
        direction   == VSub(targetPoint, en.pos)
    IN  IF LengthSq(direction) < Sq(ArrivalRadius * 100)
        THEN [en EXCEPT !.idx = NextPatrolIndex(en.idx),
                        !.arrivals = en.arrivals + 1]
        ELSE [en EXCEPT !.pos = VAdd(en.pos,
                                Along(direction, StepLen(EnemySpeed, dt, 1, 1)))]

ChaseBad(en, dt) ==
    LET direction == VSub(en.pos, en.target)
    IN  [en EXCEPT !.pos = VAdd(en.pos,
                             Along(direction, StepLen(EnemySpeed, dt, 3, 2)))]

\* EnemyAI.chase: speed * deltaTime * 1.5 toward this.target
Chase(en, dt) ==
    LET direction == VSub(en.target, en.pos)
    IN  [en EXCEPT !.pos = VAdd(en.pos,
                             Along(direction, StepLen(EnemySpeed, dt, 3, 2)))]

AttackBad(en, dt) ==
    [en EXCEPT !.pos = VAdd(en.pos,
                         Along(VSub(en.target, en.pos), StepLen(EnemySpeed, dt, 3, 2)))]

\* EnemyAI.attack: only the material's emissiveIntensity changes (not modelled)
Attack(en, dt) == en

ClassifyBad(d2) ==
    IF d2 <= Sq(AttackRange * 100) THEN "attack"
    ELSE IF d2 <= Sq(DetectionRange * 100) THEN "chase"
    ELSE "patrol"

\* the state machine of EnemyAI.update, on the squared distance to the player
Classify(d2) ==
    IF d2 < Sq(AttackRange * 100) THEN "attack"
    ELSE IF d2 < Sq(DetectionRange * 100) THEN "chase"
    ELSE "patrol"

EnemyUpdateBad(en, dt, target) ==
    LET st == IF target = <<>> THEN en.state
              ELSE Classify(DistSq(en.pos, target[1]))
        e1 == [en EXCEPT !.state = st,
                         !.target = IF st = "chase" /\ target # <<>>
                                    THEN target[1] ELSE @]
    IN  CASE st = "patrol" -> Patrol(e1, dt)
          [] st = "chase"  -> Chase(e1, dt)
          [] st = "attack" -> Attack(e1, dt)

\* EnemyAI.update(deltaTime, playerPosition).  target is <<>> when no
\* playerPosition is passed and <<p>> otherwise.  The mesh rotation and the
\* core's pulsation are visual only and not modelled.
EnemyUpdate(en, dt, target) ==
    IF target = <<>> THEN en
    ELSE LET playerPosition == target[1]
             st == Classify(DistSq(en.pos, playerPosition))
             e1 == [en EXCEPT !.state = st,
                              !.target = IF st = "chase" THEN playerPosition ELSE @]
         IN  CASE st = "patrol" -> Patrol(e1, dt)
               [] st = "chase"  -> Chase(e1, dt)
               [] st = "attack" -> Attack(e1, dt)

\* EnemyAI.destroy: the mesh leaves the scene graph
Destroy(en) == [en EXCEPT !.inScene = FALSE]

DamagedHealthBad(h, amount) == h - amount

\* Math.max(0, this.health - amount)
DamagedHealth(h, amount) == Max(0, h - amount)

\* EnemyAI.takeDamage
EnemyTakeDamage(en, amount) ==
    LET e1 == [en EXCEPT !.health = DamagedHealth(en.health, amount)]
    IN  IF e1.health <= 0 THEN Destroy(e1) ELSE e1

\* EnemyAI.isAlive
IsAlive(en) == en.health > 0

-----------------------------------------------------------------------------
(* Player                                                                  *)

PlayerSpeed == 10

PlayerHealth == 100

FloorY == 1

\* the emissive colour of the player's material, and that of the damage flash
EmissiveCyan == "00ffff"

EmissiveRed == "ff0000"

\* the delay of the timer that ends the damage flash (ms)
FlashDelay == 200

\* new Player(scene, position)
NewPlayer(position) ==
    [ pos      |-> position,
      vel      |-> Vec(0, 0, 0),
      health   |-> PlayerHealth,
      emissive |-> EmissiveCyan ]

\* Player.setPosition
SetPosition(p, position) == [p EXCEPT !.pos = position]

\* Player.move(direction): velocity += direction * speed
PlayerMove(p, direction) ==
    [p EXCEPT !.vel = VAdd(p.vel, VScale(direction, PlayerSpeed, 1))]

PlayerUpdateKeepsFalling(p, dt) ==
    LET moved  == VAdd(p.pos, VScale(p.vel, dt, 1000))
        damped == VScale(p.vel, 9, 10)
    IN  IF moved.y < FloorY * 100
        THEN [p EXCEPT !.pos = [moved EXCEPT !.y = FloorY * 100],
                       !.vel = damped]
        ELSE [p EXCEPT !.pos = moved, !.vel = damped]

PlayerUpdateDampFirst(p, dt) ==
    LET damped == VScale(p.vel, 9, 10)
        moved  == VAdd(p.pos, VScale(damped, dt, 1000))
    IN  IF moved.y < FloorY * 100
        THEN [p EXCEPT !.pos = [moved EXCEPT !.y = FloorY * 100],
                       !.vel = [damped EXCEPT !.y = 0]]
        ELSE [p EXCEPT !.pos = moved, !.vel = damped]

\* Player.update(deltaTime): integrate, damp by 0.9, clamp to the floor
PlayerUpdate(p, dt) ==
    LET moved  == VAdd(p.pos, VScale(p.vel, dt, 1000))
        damped == VScale(p.vel, 9, 10)
    IN  IF moved.y < FloorY * 100
        THEN [p EXCEPT !.pos = [moved EXCEPT !.y = FloorY * 100],
                       !.vel = [damped EXCEPT !.y = 0]]
        ELSE [p EXCEPT !.pos = moved, !.vel = damped]

\* Player.takeDamage up to its setTimeout: the health drops and the material
\* turns red
PlayerTakeDamage(p, amount) ==
    [p EXCEPT !.health = Max(0, p.health - amount), !.emissive = EmissiveRed]

\* the timer set by Player.takeDamage at time t: originalEmissive is a clone of
\* the colour the material had when takeDamage was called
NewFlash(p, t) == [orig |-> p.emissive, due |-> t + FlashDelay]

\* the timer's callback: material.emissive.copy(originalEmissive)
FlashTimeout(p, fl) == [p EXCEPT !.emissive = fl.orig]

-----------------------------------------------------------------------------
(* CinematicCamera                                                         *)

InitialSmoothFactor == 5

ShakeInterval == 16

\* Object3D.lookAt as seen through getWorldDirection: the unit vector (100
\* hundredths long) from the camera position to the point looked at.  When
\* the two coincide Matrix4.lookAt takes the z axis, and a camera then looks
\* down -z.
LookDir(position, point) ==
    LET d == VSub(point, position)
    IN  IF LengthSq(d) = 0 THEN Vec(0, 0, -100) ELSE Along(d, 100)

\* new CinematicCamera() followed by setupCamera()
NewCamera ==
    [ pos    |-> Vec(0, 5000, 10000),
      dir    |-> LookDir(Vec(0, 5000, 10000), Vec(0, 0, 0)),
      tPos   |-> Vec(0, 5000, 10000),
      tLook  |-> Vec(0, 0, 0),
      smooth |-> InitialSmoothFactor ]

\* the point update() calls currentLookAt: world direction + position
CurrentLookAt(c) == VAdd(c.dir, c.pos)

\* CinematicCamera.setTargetPosition
SetTargetPosition(c, p) == [c EXCEPT !.tPos = p]

\* CinematicCamera.setTargetLookAt
SetTargetLookAt(c, p) == [c EXCEPT !.tLook = p]

CameraUpdateBad(c, dt) ==
    LET position      == Lerp(c.pos, c.tLook, c.smooth)
        currentLookAt == Lerp(VAdd(c.dir, position), c.tLook, c.smooth)
    IN  [c EXCEPT !.pos = position, !.dir = LookDir(position, currentLookAt)]

CameraUpdateScaled(c, dt) ==
    LET f             == RDiv(c.smooth * dt, 16)
        position      == Lerp(c.pos, c.tPos, f)
        currentLookAt == Lerp(VAdd(c.dir, position), c.tLook, f)
    IN  [c EXCEPT !.pos = position, !.dir = LookDir(position, currentLookAt)]

\* CinematicCamera.update(_deltaTime), dt in ms: the argument is not used
CameraUpdate(c, dt) ==
    LET position      == Lerp(c.pos, c.tPos, c.smooth)
        currentLookAt == Lerp(VAdd(c.dir, position), c.tLook, c.smooth)
    IN  [c EXCEPT !.pos = position, !.dir = LookDir(position, currentLookAt)]

ClampBad(v, lo, hi) == Min(hi, v)

\* THREE.MathUtils.clamp: Math.max(min, Math.min(max, value))
Clamp(v, lo, hi) == Max(lo, Min(hi, v))

\* CinematicCamera.setSmoothFactor
SetSmoothFactor(c, factor) == [c EXCEPT !.smooth = Clamp(factor, 0, 100)]

\* CinematicCamera.shake up to the setInterval call: the timer created.
\* orig is the closure's originalPosition, start its shakeStart, due the
\* earliest time of its next callback, active whether it is still set.
NewShake(c, t, intensity, duration) ==
    [ orig      |-> c.pos,
      start     |-> t,
      intensity |-> intensity,
      duration  |-> duration,
      due       |-> t + ShakeInterval,
      active    |-> TRUE ]

\* (Math.random() - 0.5) * shakeAmount, r = Math.random() in hundredths
ShakeOffset(r, shakeAmount) == RDiv((r - 50) * shakeAmount, 100)

ShakeEndPositionBad(c, sh) == c.pos

\* the position the last callback leaves: position.copy(originalPosition)
ShakeEndPosition(c, sh) == sh.orig

\* the camera after one callback of timer sh at time t, drawing r.x, r.y, r.z
\* from Math.random()
ShakeCallbackCamera(c, sh, t, r) ==
    LET elapsed == t - sh.start
    IN  IF elapsed > sh.duration
        THEN [c EXCEPT !.pos = ShakeEndPosition(c, sh)]
        ELSE LET shakeAmount ==
                     RDiv(sh.intensity * (sh.duration - elapsed), sh.duration)
             IN  [c EXCEPT !.pos = Vec(sh.orig.x + ShakeOffset(r.x, shakeAmount),
                                       sh.orig.y + ShakeOffset(r.y, shakeAmount),
                                       sh.orig.z + ShakeOffset(r.z, shakeAmount))]

\* the timer after that callback: cleared once elapsed > duration
ShakeCallbackTimer(sh, t) ==
    IF t - sh.start > sh.duration
    THEN [sh EXCEPT !.active = FALSE]
    ELSE [sh EXCEPT !.due = t + ShakeInterval]

-----------------------------------------------------------------------------
(* Game                                                                    *)

MoveSpeed == 10

CameraHeight == 15

CameraBehind == 30

\* Game.createEnemies
EnemyPositions == << Vec(2000, 500, 0), Vec(-2000, 500, -2000), Vec(0, 500, -4000) >>

\* the position Game.init gives the player
PlayerStart == Vec(0, 500, 5000)

\* Game.handleInput: the movement vector of the held keys; the player is
\* moved only when it is not zero
Movement(held, dt) ==
    LET m == RDiv(MoveSpeed * dt, 10)
    IN  Vec((IF "KeyD" \in held THEN m ELSE 0) - (IF "KeyA" \in held THEN m ELSE 0),
            0,
            (IF "KeyS" \in held THEN m ELSE 0) - (IF "KeyW" \in held THEN m ELSE 0))

HandleInput(p, held, dt) ==
    LET movement == Movement(held, dt)
    IN  IF LengthSq(movement) > 0 THEN PlayerMove(p, movement) ELSE p

\* Game.setupCamera and Game.updateCamera: the targets follow the player
FollowPlayer(c, playerPos) ==
    SetTargetLookAt(
        SetTargetPosition(c, VAdd(playerPos, Vec(0, CameraHeight * 100, CameraBehind * 100))),
        playerPos)

-----------------------------------------------------------------------------
(* Bounds and input sets                                                   *)

MaxEnemyOps == 3

MaxPatrolTicks == 19

\* frame times (ms) given to EnemyAI.update
EnemyDts == {16, 1000}

PatrolDts == {1000}

\* positions passed to the EnemyAI constructor: those of Game.createEnemies,
\* the constructor's default, and the centre of the patrol route
EnemyStarts ==
    { EnemyPositions[i] : i \in 1..Len(EnemyPositions) }
        \cup { Vec(0, 500, 2000), Vec(0, 500, 0) }

\* player positions given to EnemyAI.update: at, just inside and just outside
\* the two thresholds as seen from the enemy, and the player's start
TargetOffsets ==
    { Vec(0, 0, 200), Vec(0, 0, 299), Vec(0, 0, 300), Vec(180, 0, 240),
      Vec(0, 0, 2999), Vec(0, 0, 3000) }

EnemyTargets(en) == { VAdd(en.pos, o) : o \in TargetOffsets } \cup { PlayerStart }

DamageAmounts == {0, 20, 50, 70}

-----------------------------------------------------------------------------
(* SpecEnemy: one EnemyAI object driven through its public methods         *)

\* what the last call was and what it saw: op the method, e the enemy's
\* index, pre the enemy before the call, d2 the squared distance between the
\* enemy and the player position passed (-1 when none), arg deltaTime or the
\* damage amount
Called(op, e, pre, d2, arg) == [op |-> op, e |-> e, pre |-> pre, d2 |-> d2, arg |-> arg]

InitRest ==
    /\ player = NewPlayer(PlayerStart)
    /\ cam = NewCamera
    /\ shakes = <<>>
    /\ flashes = <<>>
    /\ now = 0
    /\ lastTime = 0
    /\ keys = {}
    /\ isRunning = FALSE
    /\ frame = FALSE
    /\ ticks = 0

InitEnemy ==
    /\ \E p \in EnemyStarts : enemies = << NewEnemy(p) >>
    /\ hist = Called("new", 1, enemies[1], -1, 0)
    /\ InitRest

\* enemy.update(dt, playerPosition)
DoEnemyUpdate ==
    /\ ticks < MaxEnemyOps
    /\ \E dt \in EnemyDts, p \in EnemyTargets(enemies[1]) :
          /\ enemies' = << EnemyUpdate(enemies[1], dt, <<p>>) >>
          /\ hist' = Called("update", 1, enemies[1], DistSq(enemies[1].pos, p), dt)
    /\ ticks' = ticks + 1
    /\ UNCHANGED <<player, cam, shakes, now, lastTime, flashes, keys, isRunning, frame>>

\* enemy.update(dt)
DoEnemyUpdateNoTarget ==
    /\ ticks < MaxEnemyOps
    /\ \E dt \in EnemyDts :
          /\ enemies' = << EnemyUpdate(enemies[1], dt, <<>>) >>
          /\ hist' = Called("updateNoTarget", 1, enemies[1], -1, dt)
    /\ ticks' = ticks + 1
    /\ UNCHANGED <<player, cam, shakes, now, lastTime, flashes, keys, isRunning, frame>>

\* enemy.takeDamage(amount)
DoEnemyTakeDamage ==
    /\ ticks < MaxEnemyOps
    /\ \E amount \in DamageAmounts :
          /\ enemies' = << EnemyTakeDamage(enemies[1], amount) >>
          /\ hist' = Called("takeDamage", 1, enemies[1], -1, amount)
    /\ ticks' = ticks + 1
    /\ UNCHANGED <<player, cam, shakes, now, lastTime, flashes, keys, isRunning, frame>>

NextEnemy ==
    \/ DoEnemyUpdate
    \/ DoEnemyUpdateNoTarget
    \/ DoEnemyTakeDamage

SpecEnemy == InitEnemy /\ [][NextEnemy]_vars

-----------------------------------------------------------------------------
(* SpecPatrol: the first enemy of the game while the player stands at its  *)
(* start or near the patrol route, over enough frames to walk the route    *)

PatrolTargets == { PlayerStart, Vec(0, 500, 3500) }

\* the first and the third enemy of Game.createEnemies
PatrolStarts == { EnemyPositions[1], EnemyPositions[3] }

InitPatrol ==
    /\ \E p \in PatrolStarts : enemies = << NewEnemy(p) >>
    /\ hist = Called("new", 1, enemies[1], -1, 0)
    /\ InitRest

DoPatrolFrame ==
    /\ ticks < MaxPatrolTicks
    /\ \E dt \in PatrolDts, p \in PatrolTargets :
          /\ enemies' = << EnemyUpdate(enemies[1], dt, <<p>>) >>
          /\ hist' = Called("update", 1, enemies[1], DistSq(enemies[1].pos, p), dt)
    /\ ticks' = ticks + 1
    /\ UNCHANGED <<player, cam, shakes, now, lastTime, flashes, keys, isRunning, frame>>

\* enemy.update(dt) and enemy.takeDamage(amount) between frames
DoPatrolOther ==
    /\ ticks < MaxPatrolTicks
    /\ hist.op = "update"
    /\ \/ /\ enemies' = << EnemyUpdate(enemies[1], 1000, <<>>) >>
          /\ hist' = Called("updateNoTarget", 1, enemies[1], -1, 1000)
       \/ /\ enemies' = << EnemyTakeDamage(enemies[1], 50) >>
          /\ hist' = Called("takeDamage", 1, enemies[1], -1, 50)
    /\ ticks' = ticks + 1
    /\ UNCHANGED <<player, cam, shakes, now, lastTime, flashes, keys, isRunning, frame>>

NextPatrol == DoPatrolFrame \/ DoPatrolOther

SpecPatrol == InitPatrol /\ [][NextPatrol]_vars

-----------------------------------------------------------------------------
(* SpecChase: the first enemy of the game, frame after frame without end,  *)
(* while the player stands still within its detection range                *)

\* frame times (ms) with 0 < 1.5 * speed * deltaTime < 2 * attackRange: a
\* display refresh, and a step just short of 6 units
ChaseDts == {16, 790}

\* where the player stands: at attackRange from the enemy's start, just
\* inside detectionRange, and at the centre of the patrol route
ChasePlayers == { Vec(2000, 500, 300), Vec(2000, 500, 2999), Vec(0, 500, 0) }

InitChase ==
    /\ enemies = << NewEnemy(EnemyPositions[1]) >>
    /\ \E p \in ChasePlayers : player = NewPlayer(p)
    /\ hist = Called("new", 1, enemies[1], -1, 0)
    /\ cam = NewCamera
    /\ shakes = <<>>
    /\ flashes = <<>>
    /\ now = 0
    /\ lastTime = 0
    /\ keys = {}
    /\ isRunning = TRUE
    /\ frame = TRUE
    /\ ticks = 0

\* the enemy's part of one frame of Game.animate
ChaseFrame ==
    /\ \E dt \in ChaseDts :
          /\ enemies' = << EnemyUpdate(enemies[1], dt, << player.pos >>) >>
          /\ hist' = Called("update", 1, enemies[1],
                            DistSq(enemies[1].pos, player.pos), dt)
    /\ UNCHANGED <<player, cam, shakes, flashes, now, lastTime, keys, isRunning, frame, ticks>>

NextChase == ChaseFrame

\* requestAnimationFrame keeps calling animate while the game runs: frames
\* never cease.  ChaseFrame is enabled in every state, so this is weak
\* fairness of ChaseFrame, written without ENABLED.
SpecChase == InitChase /\ [][NextChase]_vars /\ []<><<ChaseFrame>>_vars

-----------------------------------------------------------------------------
(* SpecCamera: one CinematicCamera object driven through its public        *)
(* methods, its shake timers firing between the calls as time passes       *)

MaxCamOps == 4

MaxAdvances == 2

MaxShakes == 2

\* how far the clock moves between two handlers (ms): one timer interval, or
\* a pause longer than a shake
TimeSteps == {16, 320}

\* arguments of shake(intensity, duration): the defaults 0.5 and 0.3 s
ShakeIntensities == {50}

ShakeDurations == {300}

\* the three draws of Math.random() in one callback
RandomDraws == { Vec(0, 0, 0), Vec(99, 99, 99), Vec(50, 0, 99) }

\* arguments of update(deltaTime) (ms)
CamDts == {16, 1000}

\* arguments of setSmoothFactor
SmoothInputs == {-50, 50, 150}

\* arguments of setTargetPosition: the follow position of the player's start,
\* and the camera's own position
TargetPositions(c) == { VAdd(PlayerStart, Vec(0, CameraHeight * 100, CameraBehind * 100)), c.pos }

\* arguments of setTargetLookAt: the player's start, and the point the
\* camera is looking at
TargetLookAts(c) == { PlayerStart, CurrentLookAt(c) }

\* what the last call was and what it saw: op the method or callback, pre the
\* camera before it, arg its argument (the timer's index for a callback),
\* ideal the camera of a run with the same calls and no shake and ipre that
\* camera before the call, base the position the camera had when the first
\* of the shakes in progress began, quiet whether no other method has been
\* called since then, n the number of clock advances
CamCalled(op, pre, arg, ideal, base, quiet, n) ==
    [op |-> op, pre |-> pre, arg |-> arg, ideal |-> ideal, ipre |-> hist.ideal,
     base |-> base, quiet |-> quiet, n |-> n]

ActiveShakes == { k \in 1..Len(shakes) : shakes[k].active }

InitCamera ==
    /\ cam = NewCamera
    /\ shakes = <<>>
    /\ flashes = <<>>
    /\ now = 0
    /\ ticks = 0
    /\ hist = [op |-> "new", pre |-> cam, arg |-> 0, ideal |-> cam, ipre |-> cam,
               base |-> cam.pos, quiet |-> TRUE, n |-> 0]
    /\ enemies = <<>>
    /\ player = NewPlayer(PlayerStart)
    /\ lastTime = 0
    /\ keys = {}
    /\ isRunning = FALSE
    /\ frame = FALSE

\* time passes with no handler running
CamAdvance ==
    /\ hist.n < MaxAdvances
    /\ \E d \in TimeSteps : now' = now + d
    /\ hist' = [hist EXCEPT !.op = "advance", !.pre = cam, !.ipre = hist.ideal, !.n = @ + 1]
    /\ UNCHANGED <<enemies, player, cam, shakes, lastTime, flashes, keys, isRunning, frame, ticks>>

\* camera.update(dt)
CamDoUpdate ==
    /\ ticks < MaxCamOps
    /\ \E dt \in CamDts :
          /\ cam' = CameraUpdate(cam, dt)
          /\ hist' = CamCalled("update", cam, dt, CameraUpdate(hist.ideal, dt),
                               hist.base, FALSE, hist.n)
    /\ ticks' = ticks + 1
    /\ UNCHANGED <<enemies, player, shakes, now, lastTime, flashes, keys, isRunning, frame>>

\* camera.setTargetPosition(p)
CamSetTargetPosition ==
    /\ ticks < MaxCamOps
    /\ \E p \in TargetPositions(cam) :
          /\ cam' = SetTargetPosition(cam, p)
          /\ hist' = CamCalled("setTargetPosition", cam, 0,
                               SetTargetPosition(hist.ideal, p), hist.base, FALSE, hist.n)
    /\ ticks' = ticks + 1
    /\ UNCHANGED <<enemies, player, shakes, now, lastTime, flashes, keys, isRunning, frame>>

\* camera.setTargetLookAt(p)
CamSetTargetLookAt ==
    /\ ticks < MaxCamOps
    /\ \E p \in TargetLookAts(cam) :
          /\ cam' = SetTargetLookAt(cam, p)
          /\ hist' = CamCalled("setTargetLookAt", cam, 0,
                               SetTargetLookAt(hist.ideal, p), hist.base, FALSE, hist.n)
    /\ ticks' = ticks + 1
    /\ UNCHANGED <<enemies, player, shakes, now, lastTime, flashes, keys, isRunning, frame>>

\* camera.setSmoothFactor(f)
CamSetSmoothFactor ==
    /\ ticks < MaxCamOps
    /\ \E f \in SmoothInputs :
          /\ cam' = SetSmoothFactor(cam, f)
          /\ hist' = CamCalled("setSmoothFactor", cam, f,
                               SetSmoothFactor(hist.ideal, f), hist.base, FALSE, hist.n)
    /\ ticks' = ticks + 1
    /\ UNCHANGED <<enemies, player, shakes, now, lastTime, flashes, keys, isRunning, frame>>

\* camera.shake(intensity, duration): a new interval timer, whatever timers
\* are already set
CamShake ==
    /\ ticks < MaxCamOps
    /\ Len(shakes) < MaxShakes
    /\ \E i \in ShakeIntensities, d \in ShakeDurations :
          shakes' = Append(shakes, NewShake(cam, now, i, d))
    /\ hist' = CamCalled("shake", cam, Len(shakes) + 1, hist.ideal,
                         IF ActiveShakes = {} THEN cam.pos ELSE hist.base,
                         IF ActiveShakes = {} THEN TRUE ELSE hist.quiet, hist.n)
    /\ ticks' = ticks + 1
    /\ UNCHANGED <<enemies, player, cam, now, lastTime, flashes, keys, isRunning, frame>>

\* one callback of the interval timer k, no earlier than 16 ms after the
\* previous one
CamShakeCallback ==
    /\ ticks < MaxCamOps
    /\ \E k \in ActiveShakes :
          /\ now >= shakes[k].due
          /\ \E r \in (IF now - shakes[k].start > shakes[k].duration
                       THEN { Vec(0, 0, 0) } ELSE RandomDraws) :
                cam' = ShakeCallbackCamera(cam, shakes[k], now, r)
          /\ shakes' = [shakes EXCEPT ![k] = ShakeCallbackTimer(shakes[k], now)]
          /\ hist' = CamCalled("shakeCallback", cam, k, hist.ideal, hist.base,
                               hist.quiet, hist.n)
    /\ ticks' = ticks + 1
    /\ UNCHANGED <<enemies, player, now, lastTime, flashes, keys, isRunning, frame>>

NextCamera ==
    \/ CamAdvance
    \/ CamDoUpdate
    \/ CamSetTargetPosition
    \/ CamSetTargetLookAt
    \/ CamSetSmoothFactor
    \/ CamShake
    \/ CamShakeCallback

SpecCamera == InitCamera /\ [][NextCamera]_vars

-----------------------------------------------------------------------------
(* SpecGame: the game after Game.init, frame by frame, with key events,    *)
(* damage to the enemies and stop() between the frames                     *)

MaxFrames == 2

\* TimeManager.getDeltaTime() of a frame (ms): a display refresh, and a frame
\* after a pause
FrameDts == {16, 500}

MoveKeys == {"KeyW", "KeyS", "KeyA", "KeyD"}

GameDamageAmounts == {50}

\* the enemies that are hit: the one nearest to the player's start
DamagedEnemies == {1}

\* what the last frame or damage did: op the operation, pre the enemies and
\* ppre the player before it, used the camera as CinematicCamera.update saw
\* it in that frame, arg deltaTime or the damage amount
GameCalled(op, pre, ppre, used, arg) ==
    [op |-> op, pre |-> pre, ppre |-> ppre, used |-> used, arg |-> arg]

\* Game.init up to its call of animate(): isRunning is set and the first
\* call of animate is due
InitGame ==
    /\ enemies = [i \in 1..Len(EnemyPositions) |-> NewEnemy(EnemyPositions[i])]
    /\ player = NewPlayer(PlayerStart)
    /\ cam = FollowPlayer(NewCamera, PlayerStart)
    /\ shakes = <<>>
    /\ flashes = <<>>
    /\ now = 0
    /\ lastTime = 0
    /\ keys = {}
    /\ isRunning = TRUE
    /\ frame = TRUE
    /\ ticks = 0
    /\ hist = GameCalled("init", enemies, player, cam, 0)

\* InputManager's keydown listener
GameKeyDown ==
    /\ \E k \in MoveKeys \ keys : keys' = keys \cup {k}
    /\ UNCHANGED <<enemies, player, cam, shakes, now, lastTime, flashes, isRunning, frame, ticks, hist>>

\* InputManager's keyup listener
GameKeyUp ==
    /\ \E k \in keys : keys' = keys \ {k}
    /\ UNCHANGED <<enemies, player, cam, shakes, now, lastTime, flashes, isRunning, frame, ticks, hist>>

\* the player, the camera and the enemies after the steps of one frame, in
\* the order of Game.animate: handleInput, player.update, camera.update,
\* every enemy.update with the player's position, updateCamera
FramePlayer(dt) == PlayerUpdate(HandleInput(player, keys, dt), dt)

FrameEnemies(dt) ==
    [i \in 1..Len(enemies) |-> EnemyUpdate(enemies[i], dt, << FramePlayer(dt).pos >>)]

FrameCamera(dt) == FollowPlayer(CameraUpdate(cam, dt), FramePlayer(dt).pos)

GameFrameBad ==
    /\ frame
    /\ ticks < MaxFrames
    /\ \E dt \in FrameDts :
          /\ now' = now + dt
          /\ lastTime' = now + dt
          /\ player' = FramePlayer(dt)
          /\ cam' = FrameCamera(dt)
          /\ enemies' = FrameEnemies(dt)
          /\ hist' = GameCalled("frame", enemies, player, cam, dt)
    /\ frame' = TRUE
    /\ ticks' = ticks + 1
    /\ UNCHANGED <<shakes, flashes, keys, isRunning>>

\* Game.animate while the game runs: the next call is requested, the clock
\* is read, and the frame's steps run
GameFrame ==
    /\ frame
    /\ isRunning
    /\ ticks < MaxFrames
    /\ \E dt \in FrameDts :
          /\ now' = now + dt
          /\ lastTime' = now + dt
          /\ player' = FramePlayer(dt)
          /\ cam' = FrameCamera(dt)
          /\ enemies' = FrameEnemies(dt)
          /\ hist' = GameCalled("frame", enemies, player, cam, dt)
    /\ frame' = TRUE
    /\ ticks' = ticks + 1
    /\ UNCHANGED <<shakes, flashes, keys, isRunning>>

\* Game.animate after stop(): it returns at once and requests no other call
GameFrameStopped ==
    /\ frame
    /\ ~isRunning
    /\ frame' = FALSE
    /\ UNCHANGED <<enemies, player, cam, shakes, now, lastTime, flashes, keys, isRunning, ticks, hist>>

\* enemy.takeDamage(amount) on one of the game's enemies
GameEnemyDamage ==
    /\ \E i \in DamagedEnemies, amount \in GameDamageAmounts :
          /\ IsAlive(enemies[i])
          /\ enemies' = [enemies EXCEPT ![i] = EnemyTakeDamage(enemies[i], amount)]
          /\ hist' = GameCalled("takeDamage", enemies, player, cam, amount)
    /\ UNCHANGED <<player, cam, shakes, now, lastTime, flashes, keys, isRunning, frame, ticks>>

\* Game.stop
GameStop ==
    /\ isRunning
    /\ isRunning' = FALSE
    /\ UNCHANGED <<enemies, player, cam, shakes, now, lastTime, flashes, keys, frame, ticks, hist>>

NextGame ==
    \/ GameKeyDown
    \/ GameKeyUp
    \/ GameFrame
    \/ GameFrameStopped
    \/ GameEnemyDamage
    \/ GameStop

SpecGame == InitGame /\ [][NextGame]_vars

-----------------------------------------------------------------------------
(* SpecPlayer: one Player object driven through its public methods, its     *)
(* flash timers firing between the calls as time passes                    *)

MaxPlayerOps == 4

\* arguments of update(deltaTime) (ms)
PlayerDts == {0, 16, 500}

\* arguments of move(direction): down, along x, and up and forward
PlayerDirections == { Vec(0, -100, 0), Vec(100, 0, 0), Vec(0, 100, -100) }

\* arguments of setPosition: below the floor, and on it
PlayerPositions == { Vec(0, 0, 0), Vec(300, 100, 0) }

\* arguments of takeDamage
PlayerDamageAmounts == {30, 80}

\* how far the clock moves between two handlers (ms): half a flash, a flash
FlashTimeSteps == {100, 200}

\* what the last call was and what it saw: op the method or callback, pre the
\* player before it, arg its argument, calls the number of takeDamage calls so
\* far, sum the sum of their amounts, first the emissive colour before the
\* first of them
PlayerCalled(op, pre, arg, calls, sum, first) ==
    [op |-> op, pre |-> pre, arg |-> arg, calls |-> calls, sum |-> sum,
     first |-> first]

InitPlayer ==
    /\ player = NewPlayer(PlayerStart)
    /\ flashes = <<>>
    /\ now = 0
    /\ ticks = 0
    /\ hist = PlayerCalled("new", player, 0, 0, 0, player.emissive)
    /\ enemies = <<>>
    /\ cam = NewCamera
    /\ shakes = <<>>
    /\ lastTime = 0
    /\ keys = {}
    /\ isRunning = FALSE
    /\ frame = FALSE

\* time passes with no handler running
PlayerAdvance ==
    /\ ticks < MaxPlayerOps
    /\ \E d \in FlashTimeSteps : now' = now + d
    /\ hist' = [hist EXCEPT !.op = "advance", !.pre = player, !.arg = 0]
    /\ ticks' = ticks + 1
    /\ UNCHANGED <<enemies, player, cam, shakes, flashes, lastTime, keys, isRunning, frame>>

\* player.move(direction)
PlayerDoMove ==
    /\ ticks < MaxPlayerOps
    /\ \E direction \in PlayerDirections :
          /\ player' = PlayerMove(player, direction)
          /\ hist' = [hist EXCEPT !.op = "move", !.pre = player, !.arg = 0]
    /\ ticks' = ticks + 1
    /\ UNCHANGED <<enemies, cam, shakes, flashes, now, lastTime, keys, isRunning, frame>>

\* player.setPosition(position)
PlayerDoSetPosition ==
    /\ ticks < MaxPlayerOps
    /\ \E position \in PlayerPositions :
          /\ player' = SetPosition(player, position)
          /\ hist' = [hist EXCEPT !.op = "setPosition", !.pre = player, !.arg = 0]
    /\ ticks' = ticks + 1
    /\ UNCHANGED <<enemies, cam, shakes, flashes, now, lastTime, keys, isRunning, frame>>

\* player.update(dt)
PlayerDoUpdate ==
    /\ ticks < MaxPlayerOps
    /\ \E dt \in PlayerDts :
          /\ player' = PlayerUpdate(player, dt)
          /\ hist' = [hist EXCEPT !.op = "update", !.pre = player, !.arg = dt]
    /\ ticks' = ticks + 1
    /\ UNCHANGED <<enemies, cam, shakes, flashes, now, lastTime, keys, isRunning, frame>>

\* player.takeDamage(amount): the timer of the flash is set
PlayerDoTakeDamage ==
    /\ ticks < MaxPlayerOps
    /\ \E amount \in PlayerDamageAmounts :
          /\ player' = PlayerTakeDamage(player, amount)
          /\ hist' = PlayerCalled("takeDamage", player, amount, hist.calls + 1,
                                  hist.sum + amount,
                                  IF hist.calls = 0 THEN player.emissive ELSE hist.first)
    /\ flashes' = Append(flashes, NewFlash(player, now))
    /\ ticks' = ticks + 1
    /\ UNCHANGED <<enemies, cam, shakes, now, lastTime, keys, isRunning, frame>>

\* the oldest flash timer fires, once it is due (timers of equal delay fire
\* in the order they were set)
PlayerFlashTimeout ==
    /\ flashes # <<>>
    /\ now >= Head(flashes).due
    /\ player' = FlashTimeout(player, Head(flashes))
    /\ flashes' = Tail(flashes)
    /\ hist' = [hist EXCEPT !.op = "flashTimeout", !.pre = player, !.arg = 0]
    /\ UNCHANGED <<enemies, cam, shakes, now, lastTime, keys, isRunning, frame, ticks>>

NextPlayer ==
    \/ PlayerAdvance
    \/ PlayerDoMove
    \/ PlayerDoSetPosition
    \/ PlayerDoUpdate
    \/ PlayerDoTakeDamage
    \/ PlayerFlashTimeout

SpecPlayer == InitPlayer /\ [][NextPlayer]_vars

-----------------------------------------------------------------------------
(* Claims about EnemyAI                                                    *)

\* C1: after every update(dt, playerPosition) the behaviour state is decided
\* by the distance d between the enemy (where it stood when the call began)
\* and the player alone, whatever the state was before: attack iff d < 3,
\* chase iff 3 <= d < 30, patrol iff d >= 30.
C1_StateFromDistance ==
    hist.op = "update" =>
        LET st == enemies[hist.e].state
        IN  /\ (st = "attack") <=> (hist.d2 < Sq(AttackRange * 100))
            /\ (st = "chase")  <=> /\ hist.d2 >= Sq(AttackRange * 100)
                                   /\ hist.d2 < Sq(DetectionRange * 100)
            /\ (st = "patrol") <=> (hist.d2 >= Sq(DetectionRange * 100))

\* C1 witness: an enemy that was attacking is called with the player at
\* exactly attackRange and turns to chase
C1_Witness ==
    /\ hist.op = "update"
    /\ hist.d2 = Sq(AttackRange * 100)
    /\ hist.pre.state = "attack"
    /\ enemies[hist.e].state = "chase"

\* C2: health stays in [0, 50], no operation raises it, and once it is 0 it
\* stays 0 and isAlive() stays false.
C2_HealthBounded ==
    LET e == enemies[hist.e]
    IN  /\ e.health >= 0
        /\ e.health <= EnemyHealth
        /\ e.health <= hist.pre.health
        /\ (hist.pre.health = 0 => (e.health = 0 /\ ~IsAlive(e)))

\* C2 witness: a dead enemy has been damaged again
C2_Witness ==
    /\ hist.op = "takeDamage"
    /\ hist.arg > 0
    /\ hist.pre.health = 0
    /\ enemies[hist.e].health = 0

\* C8: the patrol index is always a valid index of the route; it starts at
\* 0; it changes only when update() runs patrol() within 2.0 of the current
\* waypoint, and then by exactly one modulo the route length; so it equals
\* the number of arrivals modulo 4 and is back at 0 after 4 arrivals.
C8_PatrolIndexCycles ==
    LET e   == enemies[hist.e]
        pre == hist.pre
        arrived ==
            /\ hist.op = "update"
            /\ e.state = "patrol"
            /\ DistSq(pre.pos, PatrolPoints[pre.idx + 1]) < Sq(ArrivalRadius * 100)
    IN  /\ e.idx \in 0..(Len(PatrolPoints) - 1)
        /\ e.idx = e.arrivals % Len(PatrolPoints)
        /\ (hist.op = "new" => e.idx = 0 /\ e.arrivals = 0)
        /\ (hist.op # "new" /\ arrived) =>
               /\ e.idx = (pre.idx + 1) % Len(PatrolPoints)
               /\ e.arrivals = pre.arrivals + 1
        /\ (hist.op # "new" /\ ~arrived) =>
               /\ e.idx = pre.idx
               /\ e.arrivals = pre.arrivals

\* C8 witness: the fourth arrival brings the index back to 0
C8_Witness ==
    /\ hist.op = "update"
    /\ hist.pre.idx = 3
    /\ enemies[hist.e].arrivals = 4
    /\ enemies[hist.e].idx = 0

-----------------------------------------------------------------------------
(* Claims about CinematicCamera                                            *)

\* C4: with one shake and no other, whatever update() calls come between the
\* timer's callbacks, the first callback that sees elapsed > duration clears
\* the timer and leaves the camera exactly where it was when shake() was
\* called; a cleared timer never runs again.
C4_ShakeRestoresPosition ==
    /\ []((/\ hist.op = "shakeCallback"
           /\ Len(shakes) = 1
           /\ now - shakes[1].start > shakes[1].duration)
          => (~shakes[1].active /\ cam.pos = hist.base))
    /\ [][\A k \in 1..Len(shakes) :
             ~shakes[k].active =>
                 /\ shakes'[k] = shakes[k]
                 /\ ~(hist'.op = "shakeCallback" /\ hist'.arg = k /\ hist' # hist)]_vars

\* C4 witness: the only shake has ended after the position had been moved
\* (by a callback or by update()), and the camera is back where it began
C4_Witness ==
    /\ hist.op = "shakeCallback"
    /\ Len(shakes) = 1
    /\ ~shakes[1].active
    /\ hist.pre.pos # hist.base
    /\ cam.pos = hist.base

\* C5 (as claimed): update() always interpolates from the position a run
\* without shakes would have, and when no shake is in progress the camera is
\* where that run would have it.
C5_ShakeKeepsSmoothing ==
    /\ (hist.op = "update" => hist.pre.pos = hist.ipre.pos)
    /\ (ActiveShakes = {} => cam.pos = hist.ideal.pos)

\* C6 (as claimed): at most one shake timer is set at any time, and when the
\* shakes have ended (nothing else having been called meanwhile) the camera
\* is where it was before the first of them.
C6_OneShakeTimer ==
    /\ Cardinality(ActiveShakes) <= 1
    /\ (ActiveShakes = {} /\ hist.quiet) => cam.pos = hist.base

\* C7: update() on a camera whose position is its target position and whose
\* current look-at point is its target look-at leaves the camera unchanged.
C7_UpdateFixedPoint ==
    ( /\ hist.op = "update"
      /\ hist.pre.pos = hist.pre.tPos
      /\ CurrentLookAt(hist.pre) = hist.pre.tLook )
    => cam = hist.pre

\* C7 witness: such an update with a smoothing factor that is not 0
C7_Witness ==
    /\ hist.op = "update"
    /\ hist.pre.pos = hist.pre.tPos
    /\ CurrentLookAt(hist.pre) = hist.pre.tLook
    /\ hist.pre.smooth > 0
    /\ cam = hist.pre

\* C10 (as claimed): the smoothing factor is always in (0, 1].
C10_SmoothPositive == cam.smooth > 0 /\ cam.smooth <= 100

\* C10 (amended): the smoothing factor is always in [0, 1]: 0.05 at first,
\* and after setSmoothFactor(f) it is f clamped to [0, 1], which is 0 for
\* every f <= 0.
C10_SmoothInUnitInterval ==
    /\ cam.smooth >= 0
    /\ cam.smooth <= 100
    /\ (hist.op = "new" => cam.smooth = 5)
    /\ (hist.op = "setSmoothFactor" =>
           cam.smooth = (IF hist.arg <= 0 THEN 0
                         ELSE IF hist.arg >= 100 THEN 100 ELSE hist.arg))

\* C10 witness: setSmoothFactor with a negative argument left the factor 0
C10_Witness ==
    /\ hist.op = "setSmoothFactor"
    /\ hist.arg < 0
    /\ cam.smooth = 0

-----------------------------------------------------------------------------
(* Claims about the frame loop                                             *)

\* C3 (as claimed): a frame leaves an enemy whose health is 0 as it was (its
\* position, behaviour state and patrol index are not advanced), and an
\* enemy that has left the scene never returns to it.
C3_DeadEnemyNotUpdated ==
    hist.op = "frame" =>
        \A i \in 1..Len(enemies) :
            /\ (hist.pre[i].health = 0 =>
                   /\ enemies[i].pos = hist.pre[i].pos
                   /\ enemies[i].state = hist.pre[i].state
                   /\ enemies[i].idx = hist.pre[i].idx)
            /\ (~hist.pre[i].inScene => ~enemies[i].inScene)

\* C9 (as claimed): the targets that camera.update() smooths toward in a
\* frame are those of the player's position after that frame's movement:
\* position + (0, 15, 30) and the position itself.
C9_CameraTargetFresh ==
    hist.op = "frame" =>
        /\ hist.used.tPos = VAdd(player.pos, Vec(0, CameraHeight * 100, CameraBehind * 100))
        /\ hist.used.tLook = player.pos

-----------------------------------------------------------------------------
(* Claims about single frames of EnemyAI                                   *)

\* C11: EnemyAI.update(dt) without a player position makes no behaviour
\* transition: the state, the position, the recorded chase target, the patrol
\* waypoint index and the health are what they were before the call, whatever
\* the state was.
C11_NoTargetNoChange ==
    hist.op = "updateNoTarget" =>
        /\ enemies[hist.e].state  = hist.pre.state
        /\ enemies[hist.e].pos    = hist.pre.pos
        /\ enemies[hist.e].target = hist.pre.target
        /\ enemies[hist.e].idx    = hist.pre.idx
        /\ enemies[hist.e].health = hist.pre.health

\* a chasing enemy, away from its recorded target, was updated for one second
\* without a player position
C11_Witness ==
    /\ hist.op = "updateNoTarget"
    /\ hist.arg = 1000
    /\ hist.pre.state = "chase"
    /\ hist.pre.target # hist.pre.pos
    /\ enemies[hist.e] = hist.pre

ChaseCloses ==
    (hist.op = "update" /\ enemies[1].state = "chase") =>
        DistSq(enemies[1].pos, player.pos) < hist.d2

\* an attacking enemy is still attacking, where it was, after the next step
AttackIsKept ==
    enemies[1].state = "attack" =>
        /\ enemies'[1].state = "attack"
        /\ enemies'[1].pos = enemies[1].pos

Cross(a, b) ==
    Vec(a.y * b.z - a.z * b.y, a.z * b.x - a.x * b.z, a.x * b.y - a.y * b.x)

Dot(a, b) == a.x * b.x + a.y * b.y + a.z * b.z

Abs(n) == IF n < 0 THEN -n ELSE n

\* moved is a step of `len` hundredths in the direction of `toward`, to within
\* one hundredth (the grid's rounding) in length and across
IsStepAlong(moved, toward, len) ==
    LET x == Cross(moved, toward)
        l == ISqrt(LengthSq(toward)) + 1
    IN  /\ LengthSq(moved) >= Sq(Max(0, len - 1))
        /\ LengthSq(moved) <= Sq(len + 1)
        /\ Dot(moved, toward) > 0
        /\ Abs(x.x) <= l /\ Abs(x.y) <= l /\ Abs(x.z) <= l

\* C13: on a frame that leaves the enemy in Patrol exactly one of two things
\* happens: within 2.0 of the current waypoint the waypoint index advances and
\* the position stays; otherwise the index stays and the position moves by
\* speed * deltaTime along the direction to the current waypoint (so not
\* toward the player, wherever the player is).
C13_PatrolStep ==
    (hist.op = "update" /\ enemies[hist.e].state = "patrol") =>
        LET waypoint == PatrolPoints[hist.pre.idx + 1]
            moved    == VSub(enemies[hist.e].pos, hist.pre.pos)
        IN  IF DistSq(hist.pre.pos, waypoint) < Sq(200)
            THEN /\ enemies[hist.e].idx = (hist.pre.idx + 1) % 4
                 /\ moved = Vec(0, 0, 0)
            ELSE /\ enemies[hist.e].idx = hist.pre.idx
                 /\ IsStepAlong(moved, VSub(waypoint, hist.pre.pos),
                                (EnemySpeed * hist.arg) \div 10)

\* an enemy has walked to its first waypoint, advanced to the second, and has
\* just taken a step toward it
C13_Witness ==
    /\ hist.op = "update"
    /\ enemies[hist.e].state = "patrol"
    /\ hist.pre.arrivals = 1
    /\ hist.pre.idx = 1
    /\ enemies[hist.e].pos # hist.pre.pos
    /\ hist.pre.pos.z < 1000

-----------------------------------------------------------------------------
(* Claims about CinematicCamera.update                                     *)

\* coordinate `after` is `before` plus f hundredths of the way to `goal`, to
\* within the grid's rounding, and not beyond `goal`
IsFractionOfWay(before, after, goal, f) ==
    /\ Abs(100 * (after - before) - f * (goal - before)) <= 50
    /\ Min(before, goal) <= after
    /\ after <= Max(before, goal)

\* C14: each update(deltaTime) moves the camera position the fraction
\* smoothFactor of the remaining way to the target position, whatever
\* deltaTime is: an update of the same camera with any other deltaTime ends in
\* the same state, no axis overshoots the target, and the distance to the
\* target does not increase.
C14_LerpIgnoresDeltaTime ==
    hist.op = "update" =>
        LET c == hist.pre
        IN  /\ IsFractionOfWay(c.pos.x, cam.pos.x, c.tPos.x, c.smooth)
            /\ IsFractionOfWay(c.pos.y, cam.pos.y, c.tPos.y, c.smooth)
            /\ IsFractionOfWay(c.pos.z, cam.pos.z, c.tPos.z, c.smooth)
            /\ \A dt \in CamDts : CameraUpdate(c, dt) = cam
            /\ DistSq(cam.pos, c.tPos) <= DistSq(c.pos, c.tPos)
            /\ cam.tPos = c.tPos

\* a camera away from its target, with smoothing 0.5, was updated with a
\* deltaTime of one second and moved
C14_Witness ==
    /\ hist.op = "update"
    /\ hist.arg = 1000
    /\ hist.pre.smooth = 50
    /\ hist.pre.pos # hist.pre.tPos
    /\ cam.pos # hist.pre.pos
    /\ cam.pos # hist.pre.tPos

-----------------------------------------------------------------------------
(* Claims about the game loop                                              *)

\* C15: after Game.stop() no frame advances anything: the game stays stopped,
\* no frame runs or renders (ticks counts them), the clock, the player and the
\* camera keep their values, the enemies change only by a takeDamage call from
\* outside the loop, the callback already requested returns without effect,
\* and no other callback is requested.
C15_StoppedGameIsFrozen ==
    [][ ~isRunning =>
          /\ ~isRunning'
          /\ ticks' = ticks
          /\ now' = now
          /\ lastTime' = lastTime
          /\ player' = player
          /\ cam' = cam
          /\ (enemies' # enemies => (hist'.op = "takeDamage" /\ hist' # hist))
          /\ (hist' # hist => hist'.op = "takeDamage")
          /\ (frame' => frame) ]_vars

\* the game ran a frame that moved the player, was stopped, and the callback
\* that was still requested has returned
C15_Witness ==
    /\ ~isRunning
    /\ ~frame
    /\ ticks = 1
    /\ player.pos # PlayerStart

\* 1 when key k is down, else 0
Held(k) == IF k \in keys THEN 1 ELSE 0

\* a step that runs a frame adds `perKey` times deltaTime (ms) hundredths per
\* second to the velocity for each held key, W and S on z, A and D on x, then
\* integrates the position with that velocity and only then damps it by 0.9
FrameAddsPerKey(perKey) ==
    ticks' = ticks + 1 =>
        LET dt == now' - now
            vx == player.vel.x + perKey * dt * (Held("KeyD") - Held("KeyA"))
            vz == player.vel.z + perKey * dt * (Held("KeyS") - Held("KeyW"))
        IN  /\ player'.pos.x = player.pos.x + RDiv(vx * dt, 1000)
            /\ player'.pos.z = player.pos.z + RDiv(vz * dt, 1000)
            /\ player'.vel.x = RDiv(vx * 9, 10)
            /\ player'.vel.z = RDiv(vz * 9, 10)

\* C16 as stated: in every frame each held movement key adds speed * deltaTime
\* (speed = 10 units per second, so deltaTime in ms hundredths) to its axis of
\* the player's velocity (W -z, S +z, A -x, D +x), opposite keys cancel, and
\* the velocity is damped by 0.9 only after the position was integrated with
\* the undamped velocity.
C16_KeyAddsSpeedDt == [][FrameAddsPerKey(PlayerSpeed \div 10)]_vars

\* C16 as the code has it: each held key adds moveSpeed * deltaTime * speed
\* = 100 * deltaTime to its axis of the velocity, opposite keys cancel, and the
\* damping follows the integration.
C16_KeyAddsMoveSpeedDtSpeed ==
    [][FrameAddsPerKey((MoveSpeed * PlayerSpeed) \div 10)]_vars

\* a frame of half a second has run with W, A and D held while the player was
\* already moving: the velocity has grown on -z and only been damped on x
C16_Witness ==
    /\ hist.op = "frame"
    /\ hist.arg = 500
    /\ keys = {"KeyW", "KeyA", "KeyD"}
    /\ hist.ppre.vel.x > 0
    /\ hist.ppre.vel.z = 0
    /\ player.vel.x = RDiv(hist.ppre.vel.x * 9, 10)
    /\ player.vel.z = -4500

-----------------------------------------------------------------------------
(* Claims about Player                                                     *)

\* C17: at the end of every Player.update the player's Y is at least 1; when
\* the floor clamp applied (the integrated Y was below 1) Y is 1 and the
\* vertical velocity is 0; X, Z and the horizontal velocity are what the
\* integration and the damping alone give, clamp or not.
C17_FloorClamp ==
    hist.op = "update" =>
        LET p  == hist.pre
            dt == hist.arg
            y1 == p.pos.y + RDiv(p.vel.y * dt, 1000)
        IN  /\ player.pos.y >= 100
            /\ y1 < 100 => (player.pos.y = 100 /\ player.vel.y = 0)
            /\ y1 >= 100 => player.pos.y = y1
            /\ player.pos.x = p.pos.x + RDiv(p.vel.x * dt, 1000)
            /\ player.pos.z = p.pos.z + RDiv(p.vel.z * dt, 1000)
            /\ player.vel.x = RDiv(p.vel.x * 9, 10)
            /\ player.vel.z = RDiv(p.vel.z * 9, 10)

\* a player moving down and sideways was updated for half a second, would
\* have ended below the floor, and was clamped
C17_Witness ==
    /\ hist.op = "update"
    /\ hist.arg = 500
    /\ hist.pre.vel.y < 0
    /\ hist.pre.vel.x > 0
    /\ hist.pre.pos.y > 100
    /\ hist.pre.pos.y + RDiv(hist.pre.vel.y * 500, 1000) < 100
    /\ player.pos.y = 100
    /\ player.vel.y = 0
    /\ player.pos.x > hist.pre.pos.x

\* C19: for any sequence of takeDamage calls, overlapping flashes included,
\* once every flash timer has fired the emissive colour is the one the
\* material had before the first call, and the health is
\* max(0, 100 - the sum of the amounts).
C19_FlashUndone ==
    (hist.calls > 0 /\ flashes = <<>>) =>
        /\ player.emissive = hist.first
        /\ player.health = Max(0, PlayerHealth - hist.sum)

=============================================================================
